---- MODULE Spec2Model ----
(***************************************************************************)
(* State-machine model of astrbot_plugin_vocabcard: the ProgressManager    *)
(* (progress_manager.py) and the daily scheduler of VocabCardPlugin        *)
(* (main.py).                                                              *)
(*                                                                         *)
(* Conventions.  A corpus entry is modelled by its key w["word"]; the      *)
(* other fields are opaque to the code modelled here.  A Python str date   *)
(* is a sequence: << >> is the empty string "", <<d>> the date of day d.   *)
(* Optional values are sequences too: << >> is None, <<x>> is x.           *)
(***************************************************************************)
EXTENDS Integers, Sequences, FiniteSets, TLC

VARIABLES
    words,      \* ProgressManager.words / VocabCardPlugin.words: the corpus
    progress,   \* ProgressManager.progress: the in-memory store
    file,       \* content of progress.json
    clock,      \* wall clock (Beijing time), in seconds
    last,       \* the last tracker call: its arguments and what it returned
    config,     \* VocabCardPlugin.config (AstrBotConfig)
    plugin,     \* VocabCardPlugin: _today_generated, _last_check_date, _cached_image_path, _current_word
    loop,       \* _schedule_loop: where it is suspended, and its locals
    images,     \* the card image files that exist
    obs,        \* what the scheduler has done so far (for the properties)
    request,    \* the on-demand commands in progress: where each is suspended, its locals
    process     \* the plugin's process: running, crashed, or failed to start

vars == <<words, progress, file, clock, last, config, plugin, loop, images, obs,
          request, process>>

\* the state of the scheduler and of what it works on
schedVars == <<config, plugin, loop, images, obs>>

\* the commands in progress and the process
cmdVars == <<request, process>>

----------------------------------------------------------------------------
(* Bounds of the model *)

\* the corpus holds 1..MaxCorpus words
MaxCorpus == 2
\* the tracker's clock runs over days 0..MaxDay
MaxDay == 1
\* the scheduler's clock runs over days 0..MaxSchedDay
MaxSchedDay == 1
\* the process is restarted at most MaxRestarts times
MaxRestarts == 1
\* the loop backs off after an error at most MaxBackoffs times
MaxBackoffs == 2

----------------------------------------------------------------------------
(* Values *)

\* datetime: one day in seconds
SecondsPerDay == 86400

\* word keys, in ascending str order; "z" is never a corpus key
KeyOrder == <<"a", "b", "c", "d", "z">>

\* the corpus, in corpus order (not the sorted order)
CorpusOrder == <<"b", "a", "c", "d">>

ForeignKey == "z"

\* Optional[str] user ids: None, the empty str and a sender
NoneId == "<None>"
UserIds == {"", "alice"}
UserArgs == UserIds \cup {NoneId}

Modes == {"random", "sequential"}

\* Python truthiness of an Optional[str]: None and "" are falsy
Truthy(user_id) == user_id /= NoneId /\ user_id /= ""

Range(s) == {s[i] : i \in 1..Len(s)}

\* x in list
Contains(s, x) == \E i \in 1..Len(s) : s[i] = x

\* min(a, b)
Min(a, b) == IF a < b THEN a ELSE b

Max(a, b) == IF a > b THEN a ELSE b

\* get_beijing_time().strftime("%Y-%m-%d")
DateStr(t) == <<t \div SecondsPerDay>>

\* position of a key in the str order
Ord(w) == CHOOSE i \in 1..Len(KeyOrder) : KeyOrder[i] = w

\* list.sort() of a list of str
RECURSIVE SortInsert(_, _)
SortInsert(s, x) ==
    IF s = <<>> THEN <<x>>
    ELSE IF Ord(x) < Ord(Head(s)) THEN <<x>> \o s
    ELSE <<Head(s)>> \o SortInsert(Tail(s), x)

RECURSIVE Sort(_)
Sort(s) == IF s = <<>> THEN <<>> ELSE SortInsert(Sort(Tail(s)), Head(s))

----------------------------------------------------------------------------
(* ProgressManager *)

\* self.word_set
WordSet == Range(words)

GetDefaultProgress ==
    [global |-> [sent_words |-> <<>>, last_push_date |-> <<>>],
     users  |-> <<>>]

NewUserEntry == [sent_words |-> <<>>, last_seen_date |-> <<>>]

\* _get_user_progress: the store after the call (the entry is created if absent)
GetUserProgress(p, user_id) ==
    IF user_id \in DOMAIN p.users THEN p
    ELSE [p EXCEPT !.users = (user_id :> NewUserEntry) @@ p.users]

\* _save_progress: sorts every user's sent_words in place, then dumps the store
SortUsers(p) ==
    [p EXCEPT !.users =
        [u \in DOMAIN p.users |->
            [p.users[u] EXCEPT !.sent_words = Sort(p.users[u].sent_words)]]]

ValidFile(p) == [kind |-> "valid", data |-> p]
AbsentFile == [kind |-> "absent", data |-> GetDefaultProgress]

\* the timeline's sent_words list after lazy creation
SentList(p, user_id) ==
    IF Truthy(user_id) THEN GetUserProgress(p, user_id).users[user_id].sent_words
    ELSE p.global.sent_words

\* a mutant of Exhausted: the reset fires while one word is still available
ExhaustedEarly(p, user_id) ==
    Len(SelectSeq(words, LAMBDA w : ~Contains(SentList(p, user_id), w))) <= 1

\* select_word, lines 93 and 95: no word is available
Exhausted(p, user_id) ==
    SelectSeq(words, LAMBDA w : ~Contains(SentList(p, user_id), w)) = <<>>

\* select_word, lines 98-101: the reset of the timeline
ResetTimeline(p, user_id) ==
    IF Truthy(user_id)
    THEN [p EXCEPT !.users[user_id].sent_words = <<>>]
    ELSE [p EXCEPT !.global.sent_words = <<>>]

\* select_word: the store when the call returns
SelectWordStore(p, user_id) ==
    LET p1 == IF Truthy(user_id) THEN GetUserProgress(p, user_id) ELSE p
    IN  IF Exhausted(p, user_id) THEN SortUsers(ResetTimeline(p1, user_id)) ELSE p1

\* select_word: the file when the call returns
SelectWordFile(p, f, user_id) ==
    IF Exhausted(p, user_id) THEN ValidFile(SelectWordStore(p, user_id)) ELSE f

\* a mutant of AvailableWords: the sent words are not filtered out
AvailableWordsUnfiltered(p, user_id) == words

\* select_word: available_words at line 105
AvailableWords(p, user_id) ==
    IF Exhausted(p, user_id) THEN words
    ELSE SelectSeq(words, LAMBDA w : ~Contains(SentList(p, user_id), w))

\* a mutant of SelectWordResults: sequential mode returns the last available word
SelectWordResultsLast(p, user_id, mode) ==
    LET available_words == AvailableWords(p, user_id)
    IN  IF available_words = <<>> THEN {<<>>}
        ELSE IF mode = "sequential" THEN {<<available_words[Len(available_words)]>>}
        ELSE {<<available_words[i]>> : i \in 1..Len(available_words)}

\* select_word: the values it may return (<<>> is None)
SelectWordResults(p, user_id, mode) ==
    LET available_words == AvailableWords(p, user_id)
    IN  IF available_words = <<>> THEN {<<>>}
        ELSE IF mode = "sequential" THEN {<<available_words[1]>>}
        ELSE {<<available_words[i]>> : i \in 1..Len(available_words)}

\* a mutant of MarkWordSentAppend: the word is appended without the membership test
MarkWordSentAppendAlways(p, word, user_id, now_str) ==
    IF Truthy(user_id)
    THEN LET p1 == GetUserProgress(p, user_id)
         IN  [p1 EXCEPT !.users[user_id] =
                 [sent_words |-> Append(p1.users[user_id].sent_words, word),
                  last_seen_date |-> now_str]]
    ELSE [p EXCEPT !.global =
             [sent_words |-> Append(p.global.sent_words, word),
              last_push_date |-> now_str]]

\* a mutant of MarkWordSentAppend: the list is written back from a copy that
\* holds the new word only
MarkWordSentAppendReplace(p, word, user_id, now_str) ==
    IF Truthy(user_id)
    THEN LET p1 == GetUserProgress(p, user_id)
         IN  [p1 EXCEPT !.users[user_id] =
                 [sent_words |-> <<word>>, last_seen_date |-> now_str]]
    ELSE [p EXCEPT !.global = [sent_words |-> <<word>>, last_push_date |-> now_str]]

\* mark_word_sent, lines 124-132: the store before the save
MarkWordSentAppend(p, word, user_id, now_str) ==
    IF Truthy(user_id)
    THEN LET p1 == GetUserProgress(p, user_id)
             sw == p1.users[user_id].sent_words
         IN  [p1 EXCEPT !.users[user_id] =
                 [sent_words |-> IF Contains(sw, word) THEN sw ELSE Append(sw, word),
                  last_seen_date |-> now_str]]
    ELSE LET sw == p.global.sent_words
         IN  [p EXCEPT !.global =
                 [sent_words |-> IF Contains(sw, word) THEN sw ELSE Append(sw, word),
                  last_push_date |-> now_str]]

\* a mutant of MarkWordSentStore: no test that the word is a corpus key
MarkWordSentStoreUnguarded(p, word, user_id, now_str) ==
    SortUsers(MarkWordSentAppend(p, word, user_id, now_str))

\* mark_word_sent: the store when the call returns
MarkWordSentStore(p, word, user_id, now_str) ==
    IF word \notin WordSet THEN p
    ELSE SortUsers(MarkWordSentAppend(p, word, user_id, now_str))

\* mark_word_sent: the file when the call returns
MarkWordSentFile(p, f, word, user_id, now_str) ==
    IF word \notin WordSet THEN f
    ELSE ValidFile(MarkWordSentStore(p, word, user_id, now_str))

\* get_status: the store when the call returns
GetStatusStore(p, user_id) ==
    IF Truthy(user_id) THEN GetUserProgress(p, user_id) ELSE p

\* get_status: the returned record
GetStatusResult(p, user_id) ==
    IF Truthy(user_id)
    THEN [type |-> "user", sent |-> Len(SentList(p, user_id)), total |-> Len(words),
          last_date |-> GetUserProgress(p, user_id).users[user_id].last_seen_date]
    ELSE [type |-> "global", sent |-> Len(p.global.sent_words), total |-> Len(words),
          last_date |-> p.global.last_push_date]

\* a mutant of Samples: sampling with replacement (random.choices)
SamplesWithReplacement(population, k) ==
    {[i \in 1..k |-> population[f[i]]] : f \in [1..k -> 1..Len(population)]}

\* random.sample(population, k): the lists of k elements at distinct positions
Samples(population, k) ==
    LET n == Len(population)
        Picks == {f \in [1..k -> 1..n] : \A i, j \in 1..k : i /= j => f[i] /= f[j]}
    IN  {[i \in 1..k |-> population[f[i]]] : f \in Picks}

\* select_recap_words: the lists it may return
SelectRecapResults(p, user_id, count) ==
    LET sent_words == GetUserProgress(p, user_id).users[user_id].sent_words
        n == IF count > Len(sent_words) THEN Len(sent_words) ELSE count
    IN  IF sent_words = <<>> THEN {<<>>}
        ELSE {SelectSeq(s, LAMBDA w : w \in WordSet) : s \in Samples(sent_words, n)}

----------------------------------------------------------------------------
(* Configuration values and time *)

\* a str is the sequence of its characters
Digits == <<"0", "1", "2", "3", "4", "5", "6", "7", "8", "9">>

IsDigit(c) == \E i \in 1..Len(Digits) : Digits[i] = c

DigitValue(c) == (CHOOSE i \in 1..Len(Digits) : Digits[i] = c) - 1

\* str.split(':'), with the part being read
RECURSIVE SplitColon(_, _)
SplitColon(str, part) ==
    IF str = <<>> THEN <<part>>
    ELSE IF Head(str) = ":" THEN <<part>> \o SplitColon(Tail(str), <<>>)
    ELSE SplitColon(Tail(str), Append(part, Head(str)))

\* int(part) does not raise (a non-empty run of digits)
IsInt(part) == part /= <<>> /\ \A i \in 1..Len(part) : IsDigit(part[i])

\* int(part)
RECURSIVE IntOf(_)
IntOf(part) ==
    IF part = <<>> THEN 0
    ELSE 10 * IntOf(SubSeq(part, 1, Len(part) - 1)) + DigitValue(part[Len(part)])

\* _parse_time
ParseTime(time_str) ==
    LET parts == SplitColon(time_str, <<>>)
    IN  IF Len(parts) >= 2 /\ IsInt(parts[1]) /\ IsInt(parts[2])
        THEN <<IntOf(parts[1]), IntOf(parts[2])>>
        ELSE <<8, 0>>

\* datetime.time(hour, minute) does not raise ValueError
ValidTime(t) == t[1] \in 0..23 /\ t[2] \in 0..59

\* now.date(), as a day number
DateOf(t) == t \div SecondsPerDay

\* now.hour and now.minute
HourOf(t) == (t % SecondsPerDay) \div 3600
MinuteOf(t) == ((t % SecondsPerDay) % 3600) \div 60

\* datetime.datetime.combine(day, datetime.time(t[0], t[1]))
Combine(day, t) == day * SecondsPerDay + t[1] * 3600 + t[2] * 60

SetMin(S) == CHOOSE x \in S : \A y \in S : x <= y

\* a mutant of CalculateNextTargetTime: a trigger time equal to now is a target
CalculateNextTargetTimeNotStrict(now, gen_time, push_time, today_generated) ==
    LET today == DateOf(now)
        gen_datetime == Combine(today, gen_time)
        push_datetime == Combine(today, push_time)
        targets == (IF ~today_generated /\ gen_datetime >= now THEN {gen_datetime} ELSE {})
                   \cup (IF push_datetime >= now THEN {push_datetime} ELSE {})
    IN  IF targets = {} THEN Combine(today + 1, gen_time) ELSE SetMin(targets)

\* a mutant of CalculateNextTargetTime: today's push time is a target even when
\* it is not in the future
CalculateNextTargetTimePastPush(now, gen_time, push_time, today_generated) ==
    LET today == DateOf(now)
        gen_datetime == Combine(today, gen_time)
        push_datetime == Combine(today, push_time)
        targets == (IF ~today_generated /\ gen_datetime > now THEN {gen_datetime} ELSE {})
                   \cup {push_datetime}
    IN  SetMin(targets)

\* _calculate_next_target_time
CalculateNextTargetTime(now, gen_time, push_time, today_generated) ==
    LET today == DateOf(now)
        gen_datetime == Combine(today, gen_time)
        push_datetime == Combine(today, push_time)
        targets == (IF ~today_generated /\ gen_datetime > now THEN {gen_datetime} ELSE {})
                   \cup (IF push_datetime > now THEN {push_datetime} ELSE {})
    IN  IF targets = {} THEN Combine(today + 1, gen_time) ELSE SetMin(targets)

\* _schedule_loop: the sleeps
CoarseThreshold == 60
CoarseMargin == 30
DebounceSeconds == 10
BackoffSeconds == 60

\* by how much a sleep may wake late, in seconds
Delays == {0, 20, 70}

\* the configured trigger times
T0730 == <<"0", "7", ":", "3", "0">>
T0800 == <<"0", "8", ":", "0", "0">>
T0000 == <<"0", "0", ":", "0", "0">>
T2400 == <<"2", "4", ":", "0", "0">>
TBad  == <<"8", "h">>

\* the configured pairs of a generation and a push time: generation before the
\* push, in the same minute as the push (whose value is malformed), after the
\* push, at midnight, and at an hour that is none
TriggerTimes ==
    {<<T0730, T0800>>, <<T0800, TBad>>, <<T0800, T0730>>, <<T0000, T0800>>,
     <<T2400, T0800>>}

\* the process is first started at 00:00:00 of day 0 (on_loaded); a restart
\* starts it again at any later instant
StartTime == 0

\* the registered destinations (unified_msg_origin values)
Destinations == <<"g1", "g2">>

\* generate_card_image: the path of the image rendered for a word
ImagePath(word) == <<"card", word>>

\* VocabCardPlugin.__init__, lines 44-48
InitPlugin ==
    [today_generated |-> FALSE, last_check_date |-> <<>>,
     cached_image_path |-> <<>>, current_word |-> <<>>]

\* _schedule_loop before an iteration; a local that is not read again before it
\* is assigned holds its initial value
InitLoop ==
    [pc |-> "top", wake |-> 0, now |-> 0, next_target |-> 0,
     gen_time |-> <<0, 0>>, push_time |-> <<0, 0>>, i |-> 0, umo |-> "", chain |-> <<>>]

\* an on-demand command that is not running
IdleRequest ==
    [pc |-> "idle", kind |-> "none", user |-> NoneId, arg |-> <<>>, words |-> <<>>,
     failed |-> FALSE, i |-> 0, umo |-> "", chain |-> <<>>]

\* the on-demand commands that may be in progress at the same time
Requests == {"r1", "r2"}

InitRequests == [r \in Requests |-> IdleRequest]

\* progress.json after open(..., 'w') truncated it and before anything is written
TruncatedFile == [kind |-> "empty", data |-> GetDefaultProgress]

\* progress.json holding the beginning only of the dump of p
PartialFile(p) == [kind |-> "partial", data |-> p]

\* progress.json holding JSON that is not an object, such as []
ArrayFile == [kind |-> "array", data |-> GetDefaultProgress]

\* _save_progress, lines 56-57: what progress.json may hold when the process
\* dies between the start and the completion of the write of p over f
CrashedSaveFiles(f, p) == {f, TruncatedFile, PartialFile(p), ValidFile(p)}

\* _load_progress, lines 35-36: "global" not in data is true of a list, and the
\* item assignment then raises TypeError, which line 42 does not catch
LoadProgressRaises(f) == f.kind = "array"

\* _load_progress: the returned store (an absent file, line 28; json.load
\* raising JSONDecodeError on an empty or cut file, line 44)
LoadProgress(f) == IF f.kind = "valid" THEN f.data ELSE GetDefaultProgress

----------------------------------------------------------------------------
(* The tracker's calls as actions *)

NoCall == [op |-> "none", user |-> NoneId, word |-> "", count |-> 0,
           ret |-> <<>>, reset |-> FALSE, again |-> FALSE]

SelectWord(user_id, mode) ==
    /\ \E r \in SelectWordResults(progress, user_id, mode) :
          last' = [op |-> "select", user |-> user_id, word |-> "", count |-> 0,
                   ret |-> r, reset |-> Exhausted(progress, user_id), again |-> FALSE]
    /\ progress' = SelectWordStore(progress, user_id)
    /\ file' = SelectWordFile(progress, file, user_id)
    /\ UNCHANGED <<words, clock>>
    /\ UNCHANGED <<schedVars, cmdVars>>

MarkWordSent(word, user_id) ==
    /\ progress' = MarkWordSentStore(progress, word, user_id, DateStr(clock))
    /\ file' = MarkWordSentFile(progress, file, word, user_id, DateStr(clock))
    /\ last' = [op |-> "mark", user |-> user_id, word |-> word, count |-> 0,
                ret |-> <<>>, reset |-> FALSE,
                again |-> (last.op = "mark" /\ last.word = word /\ last.user = user_id)]
    /\ UNCHANGED <<words, clock>>
    /\ UNCHANGED <<schedVars, cmdVars>>

GetStatus(user_id) ==
    /\ progress' = GetStatusStore(progress, user_id)
    /\ last' = [op |-> "status", user |-> user_id, word |-> "",
                count |-> GetStatusResult(progress, user_id).total,
                ret |-> <<>>, reset |-> FALSE, again |-> FALSE]
    /\ UNCHANGED <<words, file, clock>>
    /\ UNCHANGED <<schedVars, cmdVars>>

SelectRecapWords(user_id, count) ==
    /\ \E r \in SelectRecapResults(progress, user_id, count) :
          last' = [op |-> "recap", user |-> user_id, word |-> "", count |-> count,
                   ret |-> r, reset |-> FALSE, again |-> FALSE]
    /\ progress' = GetUserProgress(progress, user_id)
    /\ UNCHANGED <<words, file, clock>>
    /\ UNCHANGED <<schedVars, cmdVars>>

\* midnight passes
AdvanceDay ==
    /\ clock \div SecondsPerDay < MaxDay
    /\ clock' = clock + SecondsPerDay
    /\ last' = [NoCall EXCEPT !.op = "tick"]
    /\ UNCHANGED <<words, progress, file>>
    /\ UNCHANGED <<schedVars, cmdVars>>

----------------------------------------------------------------------------
(* The scheduler *)

Bump(f, d) == [f EXCEPT ![d] = @ + 1]

\* a mutant of GenerateDailyCard: the word is marked before the card is rendered
GenerateDailyCardMarkFirst(p, f, pl, imgs, now) ==
    LET mode == config.learning_mode
        p1 == SelectWordStore(p, NoneId)
        f1 == SelectWordFile(p, f, NoneId)
    IN  { IF r = <<>>
          THEN [progress |-> p1, file |-> f1, plugin |-> pl, images |-> imgs,
                rendered |-> FALSE, word |-> r]
          ELSE [progress |-> MarkWordSentStore(p1, r[1], NoneId, DateStr(now)),
                file     |-> MarkWordSentFile(p1, f1, r[1], NoneId, DateStr(now)),
                plugin   |-> IF render_ok
                             THEN [pl EXCEPT !.cached_image_path = <<ImagePath(r[1])>>,
                                             !.current_word = r]
                             ELSE pl,
                images   |-> IF render_ok THEN imgs \cup {ImagePath(r[1])} ELSE imgs,
                rendered |-> render_ok, word |-> r]
          : r \in SelectWordResults(p, NoneId, mode), render_ok \in BOOLEAN }

\* _generate_daily_card: what it may leave behind, for each word select_word may
\* return and each outcome of generate_card_image (render_ok: it does not raise)
GenerateDailyCard(p, f, pl, imgs, now) ==
    LET mode == config.learning_mode
        p1 == SelectWordStore(p, NoneId)
        f1 == SelectWordFile(p, f, NoneId)
    IN  { IF r = <<>> \/ ~render_ok
          THEN [progress |-> p1, file |-> f1, plugin |-> pl, images |-> imgs,
                rendered |-> FALSE, word |-> r]
          ELSE [progress |-> MarkWordSentStore(p1, r[1], NoneId, DateStr(now)),
                file     |-> MarkWordSentFile(p1, f1, r[1], NoneId, DateStr(now)),
                plugin   |-> [pl EXCEPT !.cached_image_path = <<ImagePath(r[1])>>,
                                        !.current_word = r],
                images   |-> imgs \cup {ImagePath(r[1])},
                rendered |-> TRUE, word |-> r]
          : r \in SelectWordResults(p, NoneId, mode), render_ok \in BOOLEAN }

\* os.path.exists(self._cached_image_path), for a path that is not None
CachedImageExists(pl, imgs) ==
    pl.cached_image_path /= <<>> /\ pl.cached_image_path[1] \in imgs

\* _schedule_loop, line 165: the generation is due
GenDue(now, gen_time, pl) ==
    HourOf(now) = gen_time[1] /\ MinuteOf(now) = gen_time[2] /\ ~pl.today_generated

\* _schedule_loop, lines 172-173: the push is due
PushDue(now, push_time, pl, imgs) ==
    HourOf(now) = push_time[1] /\ MinuteOf(now) = push_time[2] /\ CachedImageExists(pl, imgs)

\* _schedule_loop, lines 161-178: the checks made at `now`, up to the next
\* suspension (the first send of a push, or the 10 second sleep)
RunCheck(lp, now, pl, gen_time, push_time) ==
    \E g \in IF GenDue(now, gen_time, pl)
             THEN GenerateDailyCard(progress, file, pl, images, now)
             ELSE {[progress |-> progress, file |-> file, plugin |-> pl, images |-> images,
                    rendered |-> FALSE, word |-> <<>>]} :
       LET gen  == GenDue(now, gen_time, pl)
           pl2  == IF gen THEN [g.plugin EXCEPT !.today_generated = TRUE] ELSE pl
           push == PushDue(now, push_time, pl2, g.images)
           send == push /\ config.target_groups /= <<>>
           day  == DateOf(now)
       IN  /\ progress' = g.progress
           /\ file' = g.file
           /\ images' = g.images
           /\ plugin' = pl2
           /\ last' = IF gen THEN [NoCall EXCEPT !.op = "generate"] ELSE last
           /\ loop' = IF send
                      THEN [lp EXCEPT !.pc = "send", !.i = 1,
                                      !.umo = config.target_groups[1],
                                      !.chain = pl2.cached_image_path]
                      ELSE [lp EXCEPT !.pc = "debounce", !.wake = now + DebounceSeconds]
           /\ obs' = [obs EXCEPT
                        !.gen_calls  = IF gen THEN Bump(@, day) ELSE @,
                        !.push_calls = IF push THEN Bump(@, day) ELSE @,
                        !.cached_day = IF gen /\ g.plugin /= pl THEN day ELSE @,
                        !.cached_early = IF gen /\ g.plugin /= pl
                                         THEN now < Combine(day, push_time) + 60 ELSE @,
                        !.gen_failed = gen /\ g.word /= <<>> /\ ~g.rendered,
                        !.pushed     = push,
                        !.sends      = IF push THEN <<>> ELSE @,
                        !.push_list  = IF push THEN config.target_groups ELSE @]

\* a mutant of OnError: an error raised in an iteration ends the loop
OnErrorExit(now) == [InitLoop EXCEPT !.pc = "done"]

\* _schedule_loop, lines 180-182: an exception raised in an iteration is logged
\* and the loop sleeps 60 seconds before its next iteration
OnError(now) == [InitLoop EXCEPT !.pc = "backoff", !.wake = now + BackoffSeconds]

\* _schedule_loop, lines 131-159: one iteration up to its sleep
LoopTop ==
    /\ loop.pc = "top"
    /\ \E gen_time \in {ParseTime(config.push_time_generate)},
          push_time \in {ParseTime(config.push_time_send)} :
       LET now == clock
           today_str == DateStr(now)
           pl == IF plugin.last_check_date /= today_str
                 THEN [plugin EXCEPT !.today_generated = FALSE, !.last_check_date = today_str]
                 ELSE plugin
       IN  IF ~ValidTime(gen_time) \/ ~ValidTime(push_time)
           THEN \* datetime.time raises ValueError: the except branch, line 180
                /\ plugin' = pl
                /\ loop' = OnError(now)
                /\ UNCHANGED <<progress, file, images, obs, last>>
           ELSE LET next_target == CalculateNextTargetTime(now, gen_time, push_time,
                                                           pl.today_generated)
                    sleep_seconds == next_target - now
                    lp == [loop EXCEPT !.now = now, !.next_target = next_target,
                                       !.gen_time = gen_time, !.push_time = push_time]
                IN  IF sleep_seconds > CoarseThreshold
                    THEN /\ plugin' = pl
                         /\ loop' = [lp EXCEPT !.pc = "coarse",
                                               !.wake = now + sleep_seconds - CoarseMargin]
                         /\ UNCHANGED <<progress, file, images, obs, last>>
                    ELSE IF sleep_seconds > 0
                    THEN /\ plugin' = pl
                         /\ loop' = [lp EXCEPT !.pc = "fine", !.wake = now + sleep_seconds]
                         /\ UNCHANGED <<progress, file, images, obs, last>>
                    ELSE RunCheck([InitLoop EXCEPT !.now = now, !.next_target = next_target],
                                  now, pl, gen_time, push_time)
    /\ UNCHANGED <<cmdVars, words, clock, config>>

\* the clock stays within days 0..MaxSchedDay
InTime(t) == DateOf(t) <= MaxSchedDay

\* _schedule_loop, line 153: the coarse sleep ends, `delay` seconds late
WakeCoarse(delay) ==
    /\ loop.pc = "coarse"
    /\ InTime(loop.wake + delay)
    /\ clock' = loop.wake + delay
    /\ loop' = InitLoop
    /\ UNCHANGED <<cmdVars, words, progress, file, last, config, plugin, images, obs>>

\* _schedule_loop, lines 159-178: the exact sleep ends, `delay` seconds late,
\* and the checks are made
WakeFine(delay) ==
    /\ loop.pc = "fine"
    /\ InTime(loop.wake + delay)
    /\ clock' = loop.wake + delay
    /\ RunCheck(InitLoop, loop.wake + delay, plugin, loop.gen_time, loop.push_time)
    /\ UNCHANGED <<cmdVars, words, config>>

\* a mutant of SendOutcome: a send that raises ends the loop over the destinations
SendOutcomeAbort(i, ok) == IF ok THEN i + 1 ELSE Len(config.target_groups) + 1

\* _push_daily_card, lines 251-262: the index of the next destination after the
\* send to destination i returned (ok) or raised (~ok)
SendOutcome(i, ok) == i + 1

\* _push_daily_card, lines 258-272: a send returns or raises; the loop goes on to
\* the next destination or, after the last, discards the cached image
SendDone(ok) ==
    /\ loop.pc = "send"
    /\ LET next_i == SendOutcome(loop.i, ok)
           sends == Append(obs.sends, [umo |-> loop.umo, ok |-> ok,
                                       image |-> loop.chain])
       IN  /\ obs' = IF next_i <= Len(config.target_groups)
                     THEN [obs EXCEPT !.sends = sends]
                     ELSE [obs EXCEPT !.sends = sends, !.cached_day = 0,
                                      !.cached_early = FALSE]
           /\ IF next_i <= Len(config.target_groups)
              THEN /\ loop' = [loop EXCEPT !.i = next_i,
                                            !.umo = config.target_groups[next_i],
                                            !.chain = plugin.cached_image_path]
                   /\ UNCHANGED <<plugin, images>>
              ELSE /\ loop' = [InitLoop EXCEPT !.pc = "debounce",
                                               !.wake = clock + DebounceSeconds]
                   /\ images' = images \ Range(plugin.cached_image_path)
                   /\ plugin' = [plugin EXCEPT !.cached_image_path = <<>>]
    /\ UNCHANGED <<cmdVars, words, progress, file, clock, last, config>>

\* _schedule_loop, line 178: the 10 second sleep ends, `delay` seconds late
WakeDebounce(delay) ==
    /\ loop.pc = "debounce"
    /\ InTime(loop.wake + delay)
    /\ clock' = loop.wake + delay
    /\ loop' = InitLoop
    /\ obs' = [obs EXCEPT !.sends = <<>>, !.push_list = <<>>,
                          !.gen_failed = FALSE, !.pushed = FALSE]
    /\ UNCHANGED <<cmdVars, words, progress, file, last, config, plugin, images>>

\* _schedule_loop, line 182: the 60 second sleep after an error ends
WakeBackoff(delay) ==
    /\ loop.pc = "backoff"
    /\ obs.backoffs < MaxBackoffs
    /\ InTime(loop.wake + delay)
    /\ clock' = loop.wake + delay
    /\ loop' = InitLoop
    /\ obs' = [obs EXCEPT !.backoffs = @ + 1]
    /\ UNCHANGED <<cmdVars, words, progress, file, last, config, plugin, images>>

\* the process is stopped and started again: __init__, initialize, on_loaded
Restart ==
    /\ obs.restarts < MaxRestarts
    /\ plugin' = InitPlugin
    /\ loop' = InitLoop
    /\ progress' = LoadProgress(file)
    /\ last' = NoCall
    /\ obs' = [obs EXCEPT !.restarts = @ + 1, !.sends = <<>>, !.push_list = <<>>,
                          !.cached_day = 0, !.cached_early = FALSE,
                          !.gen_failed = FALSE, !.pushed = FALSE]
    /\ UNCHANGED <<cmdVars, words, file, clock, config, images>>

InitObs ==
    [gen_calls |-> [d \in 0..MaxSchedDay |-> 0],
     push_calls |-> [d \in 0..MaxSchedDay |-> 0],
     cached_day |-> 0, cached_early |-> FALSE, sends |-> <<>>, push_list |-> <<>>,
     gen_failed |-> FALSE, pushed |-> FALSE, backoffs |-> 0, restarts |-> 0]

DefaultConfig ==
    [learning_mode |-> "random", push_time_generate |-> T0730,
     push_time_send |-> T0800, target_groups |-> <<>>]

Init ==
    /\ words \in {SubSeq(CorpusOrder, 1, n) : n \in 1..MaxCorpus}
    /\ progress = GetDefaultProgress
    /\ file = AbsentFile
    /\ clock = 0
    /\ last = NoCall
    /\ config = DefaultConfig
    /\ plugin = InitPlugin
    /\ loop = InitLoop
    /\ images = {}
    /\ obs = InitObs
    /\ request = InitRequests
    /\ process = "running"

\* the calls of select_word, mark_word_sent and get_status, in any order
Next ==
    \/ \E u \in UserArgs, m \in Modes : SelectWord(u, m)
    \/ \E u \in UserArgs, w \in WordSet \cup {ForeignKey} : MarkWordSent(w, u)
    \/ \E u \in UserArgs : GetStatus(u)
    \/ AdvanceDay

Spec == Init /\ [][Next]_vars

\* the calls of a user who learns words and asks for recaps
RecapNext ==
    \/ \E u \in UserIds, m \in Modes : SelectWord(u, m)
    \/ \E u \in UserIds, w \in WordSet : MarkWordSent(w, u)
    \/ \E u \in UserIds, k \in 0..(MaxCorpus + 1) : SelectRecapWords(u, k)

RecapSpec == Init /\ [][RecapNext]_vars

\* a learner in sequential mode: a word is selected, and the word selected last
\* is marked for the timeline it was selected for
SelectSequential(user_id) == SelectWord(user_id, "sequential")

MarkSelected ==
    /\ last.op = "select"
    /\ last.ret /= <<>>
    /\ MarkWordSent(last.ret[1], last.user)

SeqNext ==
    \/ \E u \in UserArgs : SelectSequential(u)
    \/ MarkSelected
    \/ AdvanceDay

SeqSpec == Init /\ [][SeqNext]_vars

\* the scheduler starts with some configuration at some time of day 0
SchedInit ==
    /\ words = SubSeq(CorpusOrder, 1, MaxCorpus)
    /\ progress = GetDefaultProgress
    /\ file = AbsentFile
    /\ clock = StartTime
    /\ last = NoCall
    /\ config \in {[learning_mode |-> "random", push_time_generate |-> t[1],
                    push_time_send |-> t[2], target_groups |-> SubSeq(Destinations, 1, n)]
                   : t \in TriggerTimes, n \in 0..Len(Destinations)}
    /\ plugin = InitPlugin
    /\ loop = InitLoop
    /\ images = {}
    /\ obs = InitObs
    /\ request = InitRequests
    /\ process = "running"

SchedNext ==
    \/ LoopTop
    \/ \E d \in Delays : WakeCoarse(d)
    \/ \E d \in Delays : WakeFine(d)
    \/ \E ok \in BOOLEAN : SendDone(ok)
    \/ \E d \in Delays : WakeDebounce(d)
    \/ \E d \in Delays : WakeBackoff(d)
    \/ Restart

SchedSpec == SchedInit /\ [][SchedNext]_vars

----------------------------------------------------------------------------
(* The /vocab command (handle_vocab) next to the daily generation *)

\* handle_vocab, lines 34-40: the lists words_to_learn may hold after `count`
\* calls of select_word, none of them marked in between
VocabSelections(p, user_id, mode, count) ==
    LET available_words == AvailableWords(p, user_id)
        n == Min(count, Len(available_words))
    IN  IF available_words = <<>> THEN {<<>>}
        ELSE IF mode = "sequential" THEN {<<available_words[1]>>}
        ELSE UNION {Samples(available_words, k) : k \in 1..n}

\* handle_vocab, lines 61-62: mark_word_sent for every word of words_to_learn
RECURSIVE MarkAll(_, _, _, _)
MarkAll(p, ws, user_id, now_str) ==
    IF ws = <<>> THEN p
    ELSE MarkAll(MarkWordSentStore(p, Head(ws), user_id, now_str), Tail(ws), user_id, now_str)

\* the count arguments of a command: "1" and "2"
CountArgs == {<<"1">>, <<"2">>}

\* handle_vocab and handle_recap, lines 25-28: int(count_str), 1 when it raises
ParseCount(count_str) == IF IsInt(count_str) THEN IntOf(count_str) ELSE 1

\* handle_vocab and handle_recap, line 30: count = max(1, min(count, 10))
ClampCount(count) == Max(1, Min(count, 10))

\* handle_vocab, lines 23-58: the count is read, the words are selected and the
\* card is rendered; the handler is then suspended while the image is sent to
\* the user, or it ends on the render error (line 70)
VocabStart(r, user_id, count_str, render_ok) ==
    /\ request[r].pc = "idle"
    /\ \E count \in {ClampCount(ParseCount(count_str))} :
       \E ws \in VocabSelections(progress, user_id, config.learning_mode, count) :
          request' = [request EXCEPT ![r] =
              IF ws = <<>> THEN IdleRequest
              ELSE IF ~render_ok THEN [IdleRequest EXCEPT !.failed = TRUE]
              ELSE [IdleRequest EXCEPT !.pc = "mark", !.kind = "vocab",
                                       !.user = user_id, !.arg = count_str,
                                       !.words = ws]]
    /\ progress' = SelectWordStore(progress, user_id)
    /\ file' = SelectWordFile(progress, file, user_id)
    /\ UNCHANGED <<words, clock, last, config, plugin, loop, images, obs, process>>

\* handle_vocab, lines 60-62: the image was sent, the words are marked
VocabMark(r) ==
    /\ request[r].pc = "mark"
    /\ LET p1 == MarkAll(progress, request[r].words, request[r].user, DateStr(clock))
       IN  /\ progress' = p1
           /\ file' = ValidFile(p1)
    /\ request' = [request EXCEPT ![r] = IdleRequest]
    /\ UNCHANGED <<words, clock, last, config, plugin, loop, images, obs, process>>

\* _generate_daily_card, called by the scheduler loop between two steps of the
\* commands (it has no suspension point)
DailyGenerate ==
    /\ \E g \in GenerateDailyCard(progress, file, plugin, images, clock) :
          /\ progress' = g.progress
          /\ file' = g.file
          /\ plugin' = g.plugin
          /\ images' = g.images
          /\ obs' = [obs EXCEPT !.gen_failed = g.word /= <<>> /\ ~g.rendered]
    /\ UNCHANGED <<words, clock, last, config, loop, request, process>>

\* the users who send commands
VocabUsers == {u \in UserIds : Truthy(u)}

VocabInit ==
    /\ words = SubSeq(CorpusOrder, 1, MaxCorpus)
    /\ progress = GetDefaultProgress
    /\ file = AbsentFile
    /\ clock = StartTime
    /\ last = NoCall
    /\ config = DefaultConfig
    /\ plugin = InitPlugin
    /\ loop = InitLoop
    /\ images = {}
    /\ obs = InitObs
    /\ request = InitRequests
    /\ process = "running"

\* two /vocab commands at a time next to the daily generation
VocabNext ==
    \/ \E r \in Requests, u \in VocabUsers, count_str \in CountArgs, render_ok \in BOOLEAN :
          VocabStart(r, u, count_str, render_ok)
    \/ \E r \in Requests : VocabMark(r)
    \/ DailyGenerate

VocabSpec == VocabInit /\ [][VocabNext]_vars

----------------------------------------------------------------------------
(* The count argument of /vocab and /vocab_recap *)

\* what a user may type after the command: a count in range, a word that is not
\* a number, and the numbers 0 and 11
ArgStrings == CountArgs \cup {<<"x">>, <<"0">>, <<"1", "1">>}

\* the argument is a number between 1 and 10
ValidCountArg(count_str) == IsInt(count_str) /\ IntOf(count_str) \in 1..10

\* handle_recap, lines 264-289: the count is read and the words are drawn; the
\* handler is then suspended in the reply it yields (a message when there is no
\* word or when the render raised, the image otherwise)
RecapStart(r, user_id, count_str, render_ok) ==
    /\ request[r].pc = "idle"
    /\ \E count \in {ClampCount(ParseCount(count_str))} :
       \E ws \in SelectRecapResults(progress, user_id, count) :
          request' = [request EXCEPT ![r] =
              [IdleRequest EXCEPT !.pc = "reply", !.kind = "recap", !.user = user_id,
                                  !.arg = count_str, !.words = ws,
                                  !.failed = (ws /= <<>> /\ ~render_ok)]]
    /\ progress' = GetUserProgress(progress, user_id)
    /\ UNCHANGED <<words, file, clock, last, config, plugin, loop, images, obs, process>>

\* handle_recap, lines 277, 291-299: the reply was sent, the handler ends
RecapDone(r) ==
    /\ request[r].pc = "reply"
    /\ request' = [request EXCEPT ![r] = IdleRequest]
    /\ UNCHANGED <<words, progress, file, clock, last, config, plugin, loop, images, obs,
                   process>>

\* the plugin runs in either learning mode
ArgInit ==
    /\ words = SubSeq(CorpusOrder, 1, MaxCorpus)
    /\ progress = GetDefaultProgress
    /\ file = AbsentFile
    /\ clock = StartTime
    /\ last = NoCall
    /\ config \in {[DefaultConfig EXCEPT !.learning_mode = m] : m \in Modes}
    /\ plugin = InitPlugin
    /\ loop = InitLoop
    /\ images = {}
    /\ obs = InitObs
    /\ request = InitRequests
    /\ process = "running"

\* one user's /vocab and /vocab_recap commands, one at a time
ArgNext ==
    \/ \E u \in VocabUsers, count_str \in ArgStrings, render_ok \in BOOLEAN :
          VocabStart("r1", u, count_str, render_ok)
    \/ VocabMark("r1")
    \/ \E u \in VocabUsers, count_str \in ArgStrings, render_ok \in BOOLEAN :
          RecapStart("r1", u, count_str, render_ok)
    \/ RecapDone("r1")

ArgSpec == ArgInit /\ [][ArgNext]_vars

----------------------------------------------------------------------------
(* The progress file across crashes and starts *)

\* the process dies in mark_word_sent(word, user_id), during the write of
\* _save_progress; the store in memory is gone
CrashInSave(word, user_id) ==
    /\ process = "running"
    /\ word \in WordSet
    /\ file' \in CrashedSaveFiles(file, MarkWordSentStore(progress, word, user_id,
                                                          DateStr(clock)))
    /\ progress' = GetDefaultProgress
    /\ process' = "crashed"
    /\ last' = [NoCall EXCEPT !.op = "crash", !.user = user_id, !.word = word]
    /\ UNCHANGED <<words, clock, config, plugin, loop, images, obs, request>>

\* ProgressManager.__init__, line 21: the store is loaded when the plugin starts
Startup ==
    /\ process \in {"stopped", "crashed"}
    /\ IF LoadProgressRaises(file)
       THEN /\ process' = "failed"
            /\ UNCHANGED progress
       ELSE /\ process' = "running"
            /\ progress' = LoadProgress(file)
    /\ last' = [NoCall EXCEPT !.op = "load"]
    /\ UNCHANGED <<words, file, clock, config, plugin, loop, images, obs, request>>

\* the plugin is about to start, with whatever progress.json holds
StoreInit ==
    /\ words = SubSeq(CorpusOrder, 1, MaxCorpus)
    /\ progress = GetDefaultProgress
    /\ file \in {AbsentFile, TruncatedFile, ArrayFile}
    /\ clock = StartTime
    /\ last = NoCall
    /\ config = DefaultConfig
    /\ plugin = InitPlugin
    /\ loop = InitLoop
    /\ images = {}
    /\ obs = InitObs
    /\ request = InitRequests
    /\ process = "stopped"

StoreNext ==
    \/ Startup
    \/ \E u \in UserArgs, m \in Modes : process = "running" /\ SelectWord(u, m)
    \/ \E u \in UserArgs, w \in WordSet : process = "running" /\ MarkWordSent(w, u)
    \/ \E u \in UserArgs, w \in WordSet : CrashInSave(w, u)

StoreSpec == StoreInit /\ [][StoreNext]_vars

----------------------------------------------------------------------------
(* The commands that arrive while the scheduler's push is in progress *)

\* list.remove(x): the list without the first occurrence of x
RECURSIVE Remove(_, _)
Remove(s, x) ==
    IF s = <<>> THEN <<>>
    ELSE IF Head(s) = x THEN Tail(s)
    ELSE <<Head(s)>> \o Remove(Tail(s), x)

\* handle_register: the list object held by the config is appended to
Register(umo) ==
    /\ loop.pc = "send"
    /\ ~Contains(config.target_groups, umo)
    /\ config' = [config EXCEPT !.target_groups = Append(@, umo)]
    /\ UNCHANGED <<words, progress, file, clock, last, plugin, loop, images, obs,
                   request, process>>

\* handle_unregister: the element is removed from the list object held by the
\* config; from then on the destination is not registered during the whole push
Unregister(umo) ==
    /\ loop.pc = "send"
    /\ Contains(config.target_groups, umo)
    /\ config' = [config EXCEPT !.target_groups = Remove(@, umo)]
    /\ obs' = [obs EXCEPT !.push_list = Remove(@, umo)]
    /\ UNCHANGED <<words, progress, file, clock, last, plugin, loop, images,
                   request, process>>

\* handle_push_now, lines 232-247: the command arrives during the scheduler's
\* push; target_groups is not empty, the card is generated
PushNowGenerate(r) ==
    /\ loop.pc = "send"
    /\ request[r].pc = "idle"
    /\ config.target_groups /= <<>>
    /\ \E g \in GenerateDailyCard(progress, file, plugin, images, clock) :
          /\ progress' = g.progress
          /\ file' = g.file
          /\ plugin' = g.plugin
          /\ images' = g.images
          /\ request' = [request EXCEPT ![r] =
                IF g.plugin.cached_image_path = <<>> THEN IdleRequest
                ELSE [IdleRequest EXCEPT !.pc = "push", !.kind = "push_now"]]
    /\ UNCHANGED <<words, clock, last, config, loop, obs, process>>

\* handle_push_now, line 250, and _push_daily_card, lines 239-258: the push of
\* the command starts, up to its first send
PushNowPush(r) ==
    /\ request[r].pc = "push"
    /\ request' = [request EXCEPT ![r] =
          IF CachedImageExists(plugin, images) /\ config.target_groups /= <<>>
          THEN [@ EXCEPT !.pc = "send", !.i = 1, !.umo = config.target_groups[1],
                         !.chain = plugin.cached_image_path]
          ELSE IdleRequest]
    /\ UNCHANGED <<words, progress, file, clock, last, config, plugin, loop, images,
                   obs, process>>

\* _push_daily_card, lines 258-272, in the command: a send returns or raises
PushNowSendDone(r, ok) ==
    /\ request[r].pc = "send"
    /\ LET next_i == SendOutcome(request[r].i, ok)
       IN  IF next_i <= Len(config.target_groups)
           THEN /\ request' = [request EXCEPT ![r].i = next_i,
                                              ![r].umo = config.target_groups[next_i],
                                              ![r].chain = plugin.cached_image_path]
                /\ UNCHANGED <<plugin, images>>
           ELSE /\ request' = [request EXCEPT ![r] = IdleRequest]
                /\ images' = images \ Range(plugin.cached_image_path)
                /\ plugin' = [plugin EXCEPT !.cached_image_path = <<>>]
    /\ UNCHANGED <<words, progress, file, clock, last, config, loop, obs, process>>

\* the scheduler with the default trigger times and both destinations registered
CmdInit ==
    /\ SchedInit
    /\ config.push_time_generate = T0730 /\ config.push_time_send = T0800
    /\ config.target_groups = Destinations

\* the loop waking on time, and the commands that arrive during its push
CmdNext ==
    \/ LoopTop
    \/ WakeCoarse(0)
    \/ WakeFine(0)
    \/ \E ok \in BOOLEAN : SendDone(ok)
    \/ WakeDebounce(0)
    \/ \E umo \in Range(Destinations) : Register(umo)
    \/ \E umo \in Range(Destinations) : Unregister(umo)
    \/ PushNowGenerate("r1")
    \/ PushNowPush("r1")
    \/ \E ok \in BOOLEAN : PushNowSendDone("r1", ok)

CmdSpec == CmdInit /\ [][CmdNext]_vars

\* the steps of the loop: the event loop resumes a coroutine whose sleep or send
\* is over, and runs a coroutine that is ready
LoopStep ==
    \/ LoopTop
    \/ \E d \in Delays : WakeCoarse(d)
    \/ \E d \in Delays : WakeFine(d)
    \/ \E ok \in BOOLEAN : SendDone(ok)
    \/ \E d \in Delays : WakeDebounce(d)
    \/ \E d \in Delays : WakeBackoff(d)

\* the loop alone, from the default trigger times or an invalid hour, under the
\* event loop's scheduling: a step of the loop that is possible is taken
LiveInit ==
    /\ SchedInit
    /\ <<config.push_time_generate, config.push_time_send>> \in {<<T0730, T0800>>, <<T2400, T0800>>}
    /\ Len(config.target_groups) \in {0, Len(Destinations)}

LiveSpec == LiveInit /\ [][LoopStep]_vars /\ WF_vars(LoopStep)

----------------------------------------------------------------------------
(* Properties of the progress tracker *)

NoDuplicates(s) == \A i, j \in 1..Len(s) : i /= j => s[i] /= s[j]

\* C1: a timeline's sent_words never holds more than N = len(words) entries, and
\* a select_word call clears the timeline's sent_words exactly when, at the
\* moment of the call, the set of its sent_words is the set of corpus keys.
C1_Wraparound ==
    [][ /\ Len(progress'.global.sent_words) <= Len(words)
        /\ \A u \in DOMAIN progress'.users :
              Len(progress'.users[u].sent_words) <= Len(words)
        /\ last'.op = "select" =>
              LET before == SentList(progress, last'.user)
                  after  == SentList(progress', last'.user)
              IN  /\ (before /= <<>> /\ after = <<>>) <=> (Range(before) = WordSet)
                  /\ Range(before) /= WordSet => after = before
      ]_vars

\* a select_word call has just wrapped a full timeline around
C1_Witness ==
    /\ last.op = "select"
    /\ last.reset
    /\ SentList(progress, last.user) = <<>>
    /\ Len(words) = MaxCorpus

\* C2: the word select_word returns is not in the timeline's sent_words when the
\* call returns; and when the returned word is then marked sent (twice), the
\* next select_word that does not wrap around returns another word.
C2_SelectedNotSent ==
    /\ (last.op = "select" /\ last.ret /= <<>>) =>
          ~Contains(SentList(progress, last.user), last.ret[1])
    /\ \A u \in UserArgs, m \in Modes :
          \A r \in SelectWordResults(progress, u, m) :
             r /= <<>> =>
                LET d  == DateStr(clock)
                    p1 == SelectWordStore(progress, u)
                    p2 == MarkWordSentStore(p1, r[1], u, d)
                    p3 == MarkWordSentStore(p2, r[1], u, d)
                IN  \/ Exhausted(p3, u)
                    \/ r \notin SelectWordResults(p3, u, m)

\* select_word returned a word of a timeline that already holds sent words
C2_Witness ==
    /\ last.op = "select"
    /\ last.ret /= <<>>
    /\ ~last.reset
    /\ SentList(progress, last.user) /= <<>>

\* C3: a second mark_word_sent with the same word and timeline, on the same
\* date, leaves the whole store and the file as the first call left them, and
\* no sent_words list holds a word twice.
C3_MarkIdempotent ==
    [][ (last'.op = "mark" /\ last'.again) =>
           /\ progress' = progress
           /\ file' = file
           /\ NoDuplicates(SentList(progress', last'.user))
      ]_vars

\* mark_word_sent was called twice in a row with a corpus word
C3_Witness ==
    /\ last.op = "mark"
    /\ last.again
    /\ last.word \in WordSet
    /\ Contains(SentList(progress, last.user), last.word)

\* C4: a call for a user id (any str) changes neither the global timeline nor
\* another user's entry, and a call for the global timeline changes no user's
\* entry.
C4_TimelinesIndependent ==
    [][ /\ (last'.op \in {"select", "mark", "status", "recap"} /\ last'.user \in UserIds) =>
              /\ progress'.global = progress.global
              /\ \A v \in DOMAIN progress.users \ {last'.user} :
                    /\ v \in DOMAIN progress'.users
                    /\ progress'.users[v] = progress.users[v]
        /\ (last'.op \in {"select", "mark", "status"} /\ last'.user = NoneId) =>
              progress'.users = progress.users
      ]_vars

\* C5: every sent_words list holds corpus keys only, and mark_word_sent with a
\* word that is no corpus key changes neither the store nor the file.
C5_OnlyCorpusKeys ==
    [][ /\ Range(progress'.global.sent_words) \subseteq WordSet
        /\ \A u \in DOMAIN progress'.users :
              Range(progress'.users[u].sent_words) \subseteq WordSet
        /\ (last'.op = "mark" /\ last'.word \notin WordSet) =>
              (progress' = progress /\ file' = file)
      ]_vars

\* mark_word_sent was called with a foreign key on a store that holds sent words
C5_Witness ==
    /\ last.op = "mark"
    /\ last.word = ForeignKey
    /\ SentList(progress, last.user) /= <<>>

\* C6: select_recap_words(user, k), k >= 0, returns min(k, len(sent_words))
\* words, pairwise distinct and all in the user's sent_words; none when the
\* user has no history.
C6_Recap ==
    last.op = "recap" =>
        LET sent_words == progress.users[last.user].sent_words
        IN  /\ Len(last.ret) = Min(last.count, Len(sent_words))
            /\ NoDuplicates(last.ret)
            /\ Range(last.ret) \subseteq Range(sent_words)
            /\ sent_words = <<>> => last.ret = <<>>

\* a recap asked for more words than the user has seen, and got them all
C6_Witness ==
    /\ last.op = "recap"
    /\ last.count > Len(progress.users[last.user].sent_words)
    /\ Len(last.ret) = MaxCorpus

----------------------------------------------------------------------------
(* Properties of the scheduler *)

\* the instant h:m:00 of day d
At(d, h, m) == Combine(d, <<h, m>>)

\* C7: the next target is the earliest of today's generation time, if it is
\* after now and nothing was generated today, and today's push time, if it is
\* after now; tomorrow's generation time when neither qualifies; so it is
\* always after now.
C7_NextTarget ==
    /\ (loop.pc \in {"coarse", "fine"} \/ loop.now /= 0 \/ loop.next_target /= 0) =>
          LET now    == loop.now
              target == loop.next_target
              gen    == Combine(DateOf(now), ParseTime(config.push_time_generate))
              push   == Combine(DateOf(now), ParseTime(config.push_time_send))
              gen_ok == gen > now /\ ~plugin.today_generated
              push_ok == push > now
          IN  /\ target > now
              /\ gen_ok => target <= gen
              /\ push_ok => target <= push
              /\ \/ gen_ok /\ target = gen
                 \/ push_ok /\ target = push
                 \/ ~gen_ok /\ ~push_ok /\ target = gen + SecondsPerDay
    /\ CalculateNextTargetTime(At(0, 7, 0), <<7, 30>>, <<8, 0>>, FALSE) = At(0, 7, 30)
    /\ CalculateNextTargetTime(At(0, 7, 45), <<7, 30>>, <<8, 0>>, TRUE) = At(0, 8, 0)
    /\ CalculateNextTargetTime(At(0, 8, 15), <<7, 30>>, <<8, 0>>, TRUE) = At(1, 7, 30)
    /\ CalculateNextTargetTime(At(0, 8, 15), <<7, 30>>, <<8, 0>>, FALSE) = At(1, 7, 30)

\* the loop sleeps towards tomorrow's generation time, both of today's being past
C7_Witness ==
    /\ loop.pc = "coarse"
    /\ loop.now > Combine(DateOf(loop.now), ParseTime(config.push_time_generate))
    /\ loop.now > Combine(DateOf(loop.now), ParseTime(config.push_time_send))
    /\ DateOf(loop.next_target) = DateOf(loop.now) + 1

\* C8: on each calendar day _generate_daily_card is invoked at most once and
\* _push_daily_card at most once, whatever the delays of the sleeps.
C8_AtMostOncePerDay ==
    \A d \in 0..MaxSchedDay : obs.gen_calls[d] <= 1 /\ obs.push_calls[d] <= 1

\* both were invoked on day 0 and again on day 1
C8_Witness ==
    /\ obs.gen_calls[0] = 1 /\ obs.push_calls[0] = 1
    /\ obs.gen_calls[1] = 1 /\ obs.push_calls[1] = 1

\* C9: on every day the loop runs through (started before the day's generation
\* time, restarted or not), once the day is over the generation was invoked
\* that day, and so was the push when a card cached by the day's push time is
\* still cached.
C9_FiresEveryDay ==
    \A d \in 0..MaxSchedDay :
       LET gen_time == ParseTime(config.push_time_generate)
       IN  (/\ ValidTime(gen_time)
            /\ StartTime < Combine(d, gen_time)
            /\ DateOf(clock) > d) =>
              /\ obs.gen_calls[d] >= 1
              /\ (/\ plugin.cached_image_path /= <<>>
                  /\ obs.cached_day < d \/ (obs.cached_day = d /\ obs.cached_early)) =>
                     obs.push_calls[d] >= 1

\* the destinations of the sends of a push, in the order of the attempts
SentTo == [k \in 1..Len(obs.sends) |-> obs.sends[k].umo]

\* C10: a push attempts one send to every destination of target_groups, in
\* order, and a send that raises does not stop the sends to the destinations
\* after it.
C10_EveryDestinationOnce ==
    /\ loop.pc = "send" => SentTo = SubSeq(config.target_groups, 1, loop.i - 1)
    /\ (loop.pc /= "send" /\ obs.push_list /= <<>>) =>
          (SentTo = obs.push_list /\ obs.push_list = config.target_groups)

\* a push to two destinations is over, and its first send had raised
C10_Witness ==
    /\ loop.pc = "debounce"
    /\ Len(obs.sends) = 2
    /\ ~obs.sends[1].ok
    /\ obs.sends[2].umo = config.target_groups[2]

----------------------------------------------------------------------------
(* Properties of the scheduler loop under failures *)

\* the loop sleeps until an instant after the last day modelled, or has made
\* the last backoff modelled
Horizon ==
    \/ loop.pc \in {"coarse", "fine", "debounce", "backoff"} /\ ~InTime(loop.wake)
    \/ loop.pc = "backoff" /\ obs.backoffs >= MaxBackoffs

\* C11: the loop never ends: whatever was raised in an iteration (a render
\* or a send that fails is caught where it happens, anything else leads to the
\* 60 second sleep), the loop always starts another iteration later on.
C11_LoopNeverTerminates == []<>(loop.pc = "top" \/ Horizon)

\* an iteration starts after the 60 second sleep that followed an error
C11_Witness == loop.pc = "top" /\ obs.backoffs >= 1 /\ clock >= BackoffSeconds

----------------------------------------------------------------------------
(* Properties of the commands running next to the scheduler *)

\* the timelines: the global one and each user's
Timelines == {NoneId} \cup {u \in UserIds : Truthy(u)}

\* no timeline's sent_words gains a word in the step
NoGain ==
    \A t \in Timelines :
       Range(SentList(progress', t)) \subseteq Range(SentList(progress, t))

\* the step is the marking of a suspended command's words
MarkStep == \E r \in Requests : request[r].pc = "mark" /\ request'[r].pc = "idle"

\* C12: no update is lost.  When a command that was suspended marks its words,
\* and when the daily generation marks its word, the words are in the
\* timeline's sent_words; and a word leaves a timeline's sent_words only at a
\* wraparound, that is when sent_words held the whole corpus.
C12_NoLostUpdate ==
    [][/\ \A t \in Timelines :
            (\E w \in Range(SentList(progress, t)) : ~Contains(SentList(progress', t), w))
               => Range(SentList(progress, t)) = WordSet
       /\ \A r \in Requests :
            (request[r].pc = "mark" /\ request'[r].pc = "idle") =>
               \A w \in Range(request[r].words) :
                  Contains(SentList(progress', request[r].user), w)
       /\ (plugin'.cached_image_path /= plugin.cached_image_path) =>
               Contains(progress'.global.sent_words, plugin'.current_word[1])
      ]_vars

\* two /vocab commands of one user are suspended, the second with a word the
\* first selected too, and another word the first selected has been marked by
\* a command that ran meanwhile
C12_Witness ==
    /\ request["r1"].pc = "mark" /\ request["r2"].pc = "mark"
    /\ request["r1"].user = request["r2"].user
    /\ Len(request["r1"].words) = 2
    /\ Range(request["r2"].words) \subseteq Range(request["r1"].words)
    /\ \E w \in Range(request["r1"].words) :
          Contains(SentList(progress, request["r1"].user), w)

\* C15: selecting never adds a word to a timeline's sent_words, and when the
\* render that follows the selection raises (in /vocab or in the daily
\* generation) no timeline's sent_words gains a word.
C15_SelectDoesNotMark ==
    [][/\ \A r \in Requests :
            (request[r].pc = "idle" /\ request'[r].pc = "mark") => NoGain
       /\ \A r \in Requests :
            (~request[r].failed /\ request'[r].failed) => NoGain
       /\ (obs'.gen_failed /\ ~MarkStep) => NoGain
      ]_vars

\* a /vocab command ended on a render error and the daily generation too,
\* and no word at all is recorded as sent
C15_Witness ==
    /\ \E r \in Requests : request[r].failed
    /\ obs.gen_failed
    /\ \A t \in Timelines : SentList(progress, t) = <<>>

----------------------------------------------------------------------------
(* Properties of the progress file and of get_status *)

\* C13: when the process dies during the write of the progress file, the file
\* still holds what it held before the write began (or, the write being over,
\* the whole new store): never an empty or a cut file.
C13_CrashKeepsFile ==
    [][(process = "running" /\ process' = "crashed" /\ file.kind = "valid") =>
          (file' = file \/ file'.kind = "valid")]_vars

\* C14: loading the store does not raise, and when the file is absent or does
\* not hold a store the plugin starts with the empty default store.
C14_LoadNeverRaises ==
    last.op = "load" =>
       /\ process = "running"
       /\ file.kind /= "valid" => progress = GetDefaultProgress

\* C16: get_status leaves the whole store unchanged, for a user seen before or
\* not, and the total it returns is the corpus size.
C16_GetStatusPure ==
    [][last'.op = "status" => (progress' = progress /\ last'.count = Len(words))]_vars

----------------------------------------------------------------------------
(* Properties of the scheduler's generation and push *)

\* C17: when the render raised in the generation the loop has just run,
\* _today_generated is still false at the end of the iteration.
C17_FailedGenerationNotDone ==
    (loop.pc \in {"send", "debounce"} /\ obs.gen_failed) => ~plugin.today_generated

\* C18: when the loop has invoked _push_daily_card with a cached image and the
\* push has returned, no image is cached any more, whatever target_groups holds.
C18_CacheDiscarded ==
    (loop.pc = "debounce" /\ obs.pushed) => plugin.cached_image_path = <<>>

----------------------------------------------------------------------------
(* Properties of a push with commands arriving meanwhile *)

\* C19: while the scheduler's push is suspended at a send, the cached card is
\* the one the push read, and it exists; so all the sends of the push carry
\* the same card.
C19_CardStableDuringPush ==
    /\ loop.pc = "send" =>
          (plugin.cached_image_path = loop.chain /\ CachedImageExists(plugin, images))
    /\ \A k \in 1..Len(obs.sends) : obs.sends[k].image = obs.sends[1].image

\* C20: when the scheduler's push is over, every destination that was
\* registered from its beginning to its end got one send attempt exactly.
C20_RegisteredAllSent ==
    (loop.pc = "debounce" /\ obs.pushed) =>
       \A d \in Range(obs.push_list) :
          Cardinality({k \in 1..Len(obs.sends) : obs.sends[k].umo = d}) = 1

----------------------------------------------------------------------------
(* C21: in sequential mode select_word returns the first corpus item, in corpus
   order, that is not in the timeline's sent_words: after n select-then-mark
   steps from the empty timeline the sent words are the corpus items 1..n and
   the call returns item n+1; when n is the corpus size the call resets the
   timeline and returns item 1 *)
C21_SequentialOrder ==
    [][last'.op = "select" =>
         LET sw == SentList(progress, last'.user)
             n == Len(sw)
         IN  /\ Range(sw) = Range(SubSeq(words, 1, n))
             /\ last'.reset = (n = Len(words))
             /\ last'.ret = <<words[IF n = Len(words) THEN 1 ELSE n + 1]>>]_vars

\* the whole corpus was selected and marked for a user, and the next call wrapped
\* around to the first item
C21_Witness ==
    /\ last.op = "select"
    /\ last.reset
    /\ Truthy(last.user)
    /\ Len(words) = MaxCorpus
    /\ last.ret = <<words[1]>>
    /\ SentList(progress, last.user) = <<>>

----------------------------------------------------------------------------
\* the corpus words that are not in the user's sent_words
Unseen(p, user_id) == {w \in WordSet : ~Contains(SentList(p, user_id), w)}

\* a /vocab command of request r has delivered its card
Delivered(r) ==
    request[r].pc = "idle" /\ request'[r].pc = "mark" /\ request'[r].kind = "vocab"

(* C22: a /vocab request for k words, 1 <= k <= 10, by a user who has at least k
   unseen corpus words delivers k pairwise distinct unseen words, and all the
   delivered words are marked as sent for that user when the handler ends *)
C22_VocabDeliversK ==
    [][\A r \in Requests :
         /\ (Delivered(r) /\ ValidCountArg(request'[r].arg)
              /\ Cardinality(Unseen(progress, request'[r].user))
                    >= IntOf(request'[r].arg))
            => /\ Len(request'[r].words) = IntOf(request'[r].arg)
               /\ NoDuplicates(request'[r].words)
               /\ Range(request'[r].words) \subseteq Unseen(progress, request'[r].user)
         /\ (request[r].pc = "mark" /\ request'[r].pc = "idle")
            => Range(request[r].words)
                 \subseteq Range(SentList(progress', request[r].user))]_vars

(* C23: a command whose count argument is not a number or is out of range is
   rejected: no card follows it and the store and its file are left as they were *)
C23_InvalidCountRejected ==
    [][\A r \in Requests :
         /\ ~ValidCountArg(request'[r].arg) => request'[r].pc = "idle"
         /\ (request[r].pc /= "idle" /\ ~ValidCountArg(request[r].arg))
            => (progress' = progress /\ file' = file)]_vars

----------------------------------------------------------------------------
\* a configured time is an HH:MM value: two numbers, an hour and a minute
ValidHHMM(time_str) ==
    LET parts == SplitColon(time_str, <<>>)
    IN  /\ Len(parts) >= 2
        /\ IsInt(parts[1]) /\ IsInt(parts[2])
        /\ ValidTime(<<IntOf(parts[1]), IntOf(parts[2])>>)

\* the time a configured value stands for: 08:00 when it is not an HH:MM value
TimeOrDefault(time_str) == IF ValidHHMM(time_str) THEN ParseTime(time_str) ELSE <<8, 0>>

(* C24: a configured trigger time that is not a valid HH:MM value is treated as
   08:00: an iteration of the loop that starts with such a configuration computes
   the next target from 08:00 and sleeps until it, or runs the check that is due *)
C24_MalformedTimeIs0800 ==
    [][(loop.pc = "top" /\ loop'.pc /= "top") =>
         /\ loop'.pc \in {"coarse", "fine", "send", "debounce"}
         /\ loop'.next_target =
               CalculateNextTargetTime(clock, TimeOrDefault(config.push_time_generate),
                                       TimeOrDefault(config.push_time_send),
                                       plugin.last_check_date = DateStr(clock)
                                         /\ plugin.today_generated)]_vars

----------------------------------------------------------------------------
\* a list is in ascending order of its strings, no string twice
SortedStrict(s) == \A i, j \in 1..Len(s) : i < j => Ord(s[i]) < Ord(s[j])

(* C25: the file written by a save holds, for the global timeline and for every
   user timeline, a sent_words list in ascending order without a duplicate *)
C25_PersistedListsSorted ==
    file.kind = "valid" =>
        /\ SortedStrict(file.data.global.sent_words)
        /\ \A u \in DOMAIN file.data.users : SortedStrict(file.data.users[u].sent_words)

====
